---- MODULE Spec2Model ----
(***************************************************************************)
(* COA generator (src/app.py): the bounded-sum allocator                   *)
(* distribute_within_bounds, the deterministic and randomized composition  *)
(* solvers built on it, and the per-session component cache of the         *)
(* Streamlit script.                                                       *)
(*                                                                         *)
(* Numbers.  The program computes with Python floats that it rounds to 4   *)
(* and to 2 decimals.  The model computes in fixed point: one model unit   *)
(* is 10^-6, so 0.01 is Cent units and 0.0001 is Tick units.  Quotients    *)
(* are rounded to the nearest unit, round(x, n) is Python's round-half-    *)
(* even on the decimal value.  The thresholds 1e-9 and 1e-8 of the source  *)
(* are smaller than one unit: on the integer grid "a + 1e-9 < b" is a < b  *)
(* and "abs(r) < 1e-8" is r = 0.  Weights only ever occur in ratios; they  *)
(* are kept in quarter units (1 = 0.25).                                   *)
(***************************************************************************)
EXTENDS Integers, Sequences, FiniteSets, TLC

VARIABLES
    target, weights, mins, maxs, allocated, apc,           \* one call of distribute_within_bounds
    moisture, strategy, spc, gum_try_list, tried, attempt, drawn, result,  \* one call of a solver
    components, components_moisture, refresh, generate, upc, surfaced, data  \* the script

vars == <<target, weights, mins, maxs, allocated, apc,
          moisture, strategy, spc, gum_try_list, tried, attempt, drawn, result,
          components, components_moisture, refresh, generate, upc, surfaced, data>>

allocVars == <<target, weights, mins, maxs, allocated, apc>>
solveVars == <<moisture, strategy, spc, gum_try_list, tried, attempt, drawn, result>>
uiVars == <<components, components_moisture, refresh, generate, upc, surfaced, data>>

----------------------------------------------------------------------------
(* Fixed-point arithmetic *)

Cent == 10^4     \* 0.01 in model units
Tick == 10^2     \* 0.0001 in model units
Hundred == 10^4 * Cent   \* 100.0

Abs(x) == IF x < 0 THEN -x ELSE x
Min2(a, b) == IF a < b THEN a ELSE b
Max2(a, b) == IF a > b THEN a ELSE b

\* x rounded to the nearest multiple of q, ties to the even multiple
RoundTo(x, q) ==
    LET f == x \div q
        r == x % q
    IN  IF 2 * r < q THEN f * q
        ELSE IF 2 * r > q THEN (f + 1) * q
        ELSE IF f % 2 = 0 THEN f * q ELSE (f + 1) * q

Round2(x) == RoundTo(x, Cent)
Round4(x) == RoundTo(x, Tick)

\* a * b / c to the nearest unit (c > 0)
MulDiv(a, b, c) == (2 * a * b + c) \div (2 * c)

\* a + 1e-9 < b
LtEps(a, b) == a < b

\* abs(r) < 1e-8
Negligible(r) == r = 0

RECURSIVE SumSeq(_, _, _)
SumSeq(f, names, k) == IF k = 0 THEN 0 ELSE f[names[k]] + SumSeq(f, names, k - 1)
SumOver(f, names) == SumSeq(f, names, Len(names))

SeqRange(s) == {s[i] : i \in 1..Len(s)}

----------------------------------------------------------------------------
(* Ranges and mids *)

RANGES == [fat     |-> <<45 * Cent, 55 * Cent>>,
           air     |-> <<290 * Cent, 310 * Cent>>,
           ash     |-> <<45 * Cent, 55 * Cent>>,
           protein |-> <<245 * Cent, 255 * Cent>>,
           gum     |-> <<8010 * Cent, 8995 * Cent>>]

MIDS == [k \in DOMAIN RANGES |-> Round4((RANGES[k][1] + RANGES[k][2]) \div 2)]

others == <<"fat", "air", "ash", "protein">>

\* no value (None)
NoVals == [n \in {} |-> 0]
NoCall == [ok |-> FALSE, why |-> "", vals |-> NoVals]

\* a weight w (in model units) in quarter units
Quarter(w) == w \div (25 * Cent)

----------------------------------------------------------------------------
(* distribute_within_bounds *)

\* the gate with strict comparisons: a target equal to a sum of bounds is refused
Feasible_Strict(t, names, mn, mx) ==
    SumOver(mn, names) < t /\ t < SumOver(mx, names)

\* lines 89-92: the gate lets the target through
Feasible(t, names, mn, mx) ==
    ~(LtEps(t, SumOver(mn, names)) \/ LtEps(SumOver(mx, names), t))

InitialVals(t, names, w) ==
    LET w_sum == SumOver(w, names)
    IN  IF w_sum <= 0
        THEN [n \in SeqRange(names) |-> MulDiv(t, 1, Len(names))]
        ELSE [n \in SeqRange(names) |-> MulDiv(t, w[n], w_sum)]

\* lines 103-112: every unlocked value outside its bounds is clamped and locked
Clamped(v, locked, mn, mx) ==
    [n \in DOMAIN v |->
        IF locked[n] THEN v[n]
        ELSE IF v[n] < mn[n] THEN mn[n]
        ELSE IF v[n] > mx[n] THEN mx[n]
        ELSE v[n]]

NewlyLocked(v, locked, mn, mx) ==
    [n \in DOMAIN v |-> locked[n] \/ v[n] < mn[n] \/ v[n] > mx[n]]

\* lines 120-126: the residual spread over the unlocked components
Redistributed(v, unlocked, rem, w) ==
    LET w_un_sum == SumOver(w, unlocked)
    IN  [n \in DOMAIN v |->
            IF n \notin SeqRange(unlocked) THEN v[n]
            ELSE IF w_un_sum <= 0 THEN v[n] + MulDiv(rem, 1, Len(unlocked))
            ELSE v[n] + MulDiv(rem, w[n], w_un_sum)]

MaxPasses == 100

\* lines 101-126: the loop, from pass i on
RECURSIVE WaterFill(_, _, _, _, _, _, _, _)
WaterFill(i, v, locked, t, names, mn, mx, w) ==
    IF i >= MaxPasses THEN v
    ELSE IF NewlyLocked(v, locked, mn, mx) # locked
    THEN WaterFill(i + 1, Clamped(v, locked, mn, mx), NewlyLocked(v, locked, mn, mx),
                   t, names, mn, mx, w)
    ELSE LET unlocked == SelectSeq(names, LAMBDA n : ~locked[n])
             rem == t - SumOver(v, names)
         IN  IF unlocked = <<>> \/ Negligible(rem) THEN v
             ELSE LET nv == Redistributed(v, unlocked, rem, w)
                  IN  IF nv = v THEN v  \* a pass that changes nothing repeats unchanged
                      ELSE WaterFill(i + 1, nv, locked, t, names, mn, mx, w)

\* lines 128-130
ClampRound(v, mn, mx) ==
    [n \in DOMAIN v |-> Round2(Max2(Min2(v[n], mx[n]), mn[n]))]

\* the move not limited by the slack to the bounds
NudgeMove_Unbounded(allow_low, allow_high, diff) == diff

\* line 139
NudgeMove(allow_low, allow_high, diff) == Max2(-allow_low, Min2(allow_high, diff))

\* lines 136-144: the nudge loop over adjustable, from its k-th element on
RECURSIVE NudgeLoop(_, _, _, _, _, _, _, _)
NudgeLoop(k, adjustable, v, diff, t, names, mn, mx) ==
    IF k > Len(adjustable) THEN v
    ELSE LET n == adjustable[k]
             allow_low == Round2(v[n] - mn[n])
             allow_high == Round2(mx[n] - v[n])
             move == NudgeMove(allow_low, allow_high, diff)
         IN  IF Abs(move) >= Cent
             THEN LET nv == [v EXCEPT ![n] = Round2(v[n] + move)]
                      ndiff == Round2(t - SumOver(nv, names))
                  IN  IF Abs(ndiff) < Cent THEN nv
                      ELSE NudgeLoop(k + 1, adjustable, nv, ndiff, t, names, mn, mx)
             ELSE NudgeLoop(k + 1, adjustable, v, diff, t, names, mn, mx)

\* lines 132-144
Nudged(v, t, names, mn, mx) ==
    LET total == Round2(SumOver(v, names))
        diff == Round2(t - total)
    IN  IF Abs(diff) >= Cent
        THEN NudgeLoop(1, SelectSeq(names, LAMBDA n : LtEps(mn[n], v[n]) /\ LtEps(v[n], mx[n])),
                       v, diff, t, names, mn, mx)
        ELSE v

\* the final check left out
FinalCheck_Skipped(final_total, t) == TRUE

\* lines 146-147: the final check passes
FinalCheck(final_total, t) == ~(Abs(final_total - t) > Cent)

\* the call: [ok |-> TRUE, vals |-> the assignment] when it returns,
\* ok = FALSE when it raises ValueError (why: which raise)
distribute_within_bounds(t, names, mn, mx, w) ==
    IF ~Feasible(t, names, mn, mx)
    THEN [ok |-> FALSE, why |-> "Target not achievable with given bounds.",
          vals |-> [n \in SeqRange(names) |-> 0]]
    ELSE LET filled == WaterFill(0, InitialVals(t, names, w),
                                 [n \in SeqRange(names) |-> FALSE], t, names, mn, mx, w)
             v == Nudged(ClampRound(filled, mn, mx), t, names, mn, mx)
         IN  IF FinalCheck(Round2(SumOver(v, names)), t)
             THEN [ok |-> TRUE, why |-> "", vals |-> v]
             ELSE [ok |-> FALSE, why |-> "Could not distribute to meet target.", vals |-> v]

----------------------------------------------------------------------------
(* calculate_components_deterministic, calculate_components_random *)

\* the bounds and weights handed to the allocator (lines 186-188, 228-230)
OtherMins == [o \in SeqRange(others) |-> RANGES[o][1]]
OtherMaxs == [o \in SeqRange(others) |-> RANGES[o][2]]
MidWeights == [o \in SeqRange(others) |-> Quarter(MIDS[o])]

\* lines 167, 208
Remaining(m) == Round4(Hundred - m)

\* lines 172, 215: gum_min - 1e-9 <= gum_needed <= gum_max + 1e-9
GumInBounds(gum_needed) ==
    ~LtEps(gum_needed, RANGES["gum"][1]) /\ ~LtEps(RANGES["gum"][2], gum_needed)

Tuple(gum, protein, ash, air, fat) ==
    [gum |-> gum, protein |-> protein, ash |-> ash, air |-> air, fat |-> fat]

\* lines 178, 196, 221, 238
Total(m, fat, air, ash, protein, gum) == Round2(m + fat + air + ash + protein + gum)

\* lines 169-170
DetGumNeeded(m) == Round4(Remaining(m) - SumOver(MIDS, others))

\* lines 173-181: the others at their midpoints
DeterministicDirect(m) ==
    LET fat == Round2(MIDS["fat"])
        air == Round2(MIDS["air"])
        ash == Round2(MIDS["ash"])
        protein == Round2(MIDS["protein"])
        gum == Round2(DetGumNeeded(m))
        total == Total(m, fat, air, ash, protein, gum)
    IN  IF Abs(total - Hundred) > Cent
        THEN Tuple(Round2(gum + (Hundred - total)), protein, ash, air, fat)
        ELSE Tuple(gum, protein, ash, air, fat)

\* lines 199-201, 241-243: the residual goes into gum if gum stays in bounds
PushIntoGum(gum, total) ==
    LET residual == Round2(Hundred - total)
        new_gum == Round2(gum + residual)
    IN  IF RANGES["gum"][1] <= new_gum /\ new_gum <= RANGES["gum"][2]
        THEN new_gum ELSE gum

\* lines 191-202, 233-244: the tuple built from an allocation
FromAllocation(m, gum_try, alloc) ==
    LET fat == alloc["fat"]
        air == alloc["air"]
        ash == alloc["ash"]
        protein == alloc["protein"]
        gum == Round2(gum_try)
        total == Total(m, fat, air, ash, protein, gum)
    IN  IF Abs(total - Hundred) > Cent
        THEN Tuple(PushIntoGum(gum, total), protein, ash, air, fat)
        ELSE Tuple(gum, protein, ash, air, fat)

\* the endpoints tried in reverse
GumTryList_Reversed == <<RANGES["gum"][2], RANGES["gum"][1]>>

\* line 183
GumTryList == <<RANGES["gum"][1], RANGES["gum"][2]>>

\* lines 185-204: one endpoint; ok = FALSE is the caught ValueError
DeterministicTry(m, gum_try) ==
    LET available == Round4(Remaining(m) - gum_try)
        got == distribute_within_bounds(available, others, OtherMins, OtherMaxs, MidWeights)
    IN  IF got.ok
        THEN [ok |-> TRUE, result |-> FromAllocation(m, gum_try, got.vals)]
        ELSE [ok |-> FALSE, result |-> NoVals]

\* lines 213-214
RandGumNeeded(m, sampled) == Round4(Remaining(m) - SumOver(sampled, others))

\* lines 216-224: the sampled values taken directly
RandomDirect(m, sampled) ==
    LET fat == Round2(sampled["fat"])
        air == Round2(sampled["air"])
        ash == Round2(sampled["ash"])
        protein == Round2(sampled["protein"])
        gum == Round2(RandGumNeeded(m, sampled))
        total == Total(m, fat, air, ash, protein, gum)
    IN  IF Abs(total - Hundred) > Cent
        THEN Tuple(Round2(gum + (Hundred - total)), protein, ash, air, fat)
        ELSE Tuple(gum, protein, ash, air, fat)

\* lines 226-246: a sampled gum and jittered weights; ok = FALSE is the caught ValueError
RandomAllocate(m, gum_try, rand_weights) ==
    LET available_for_others == Round4(Remaining(m) - gum_try)
        got == distribute_within_bounds(available_for_others, others,
                                        OtherMins, OtherMaxs, rand_weights)
    IN  IF got.ok
        THEN [ok |-> TRUE, result |-> FromAllocation(m, gum_try, got.vals)]
        ELSE [ok |-> FALSE, result |-> NoVals]

----------------------------------------------------------------------------
(* One call of distribute_within_bounds on drawn arguments *)

TargetSteps == 120
MaxJitter == 2
MaxShrink == 1

\* targets from 6.20 in steps of 0.005: below, across and above [6.25, 6.75]
AllocTargets == {620 * Cent + k * (Cent \div 2) : k \in 0..TargetSteps}

\* the weights of the callers: the midpoints (line 188), each plus a jitter
\* below 1 (line 230), in quarter units; and the all-zero assignment
JitteredWeights ==
    {[o \in SeqRange(others) |-> Quarter(MIDS[o]) + j[o]] :
        j \in [SeqRange(others) -> 0..MaxJitter]}

AllocWeights == JitteredWeights \cup {[o \in SeqRange(others) |-> 0]}

\* the bounds of RANGES, each narrowed by s * 0.005 at both ends
BoundsTable(s) ==
    [mins |-> [o \in SeqRange(others) |-> RANGES[o][1] + s * (Cent \div 2)],
     maxs |-> [o \in SeqRange(others) |-> RANGES[o][2] - s * (Cent \div 2)]]

SolveIdle ==
    /\ moisture = 0 /\ strategy = "none" /\ spc = "idle" /\ gum_try_list = <<>>
    /\ tried = <<>> /\ attempt = 0 /\ drawn = NoVals /\ result = NoVals

UiIdle ==
    /\ components = NoVals /\ components_moisture = -1
    /\ refresh = FALSE /\ generate = FALSE /\ upc = "idle"
    /\ surfaced = "none" /\ data = NoVals

AllocIdle ==
    /\ target = 0 /\ weights = NoVals /\ mins = NoVals /\ maxs = NoVals
    /\ allocated = NoCall /\ apc = "idle"

InitAlloc ==
    /\ target \in AllocTargets
    /\ weights \in AllocWeights
    /\ \E s \in 0..MaxShrink : mins = BoundsTable(s).mins /\ maxs = BoundsTable(s).maxs
    /\ allocated = NoCall
    /\ apc = "call"
    /\ SolveIdle /\ UiIdle

Distribute ==
    /\ apc = "call"
    /\ allocated' = distribute_within_bounds(target, others, mins, maxs, weights)
    /\ apc' = IF allocated'.ok THEN "returned" ELSE "raised"
    /\ UNCHANGED <<target, weights, mins, maxs>>
    /\ UNCHANGED solveVars /\ UNCHANGED uiVars

NextAlloc == Distribute

SpecAlloc == InitAlloc /\ [][NextAlloc]_vars

----------------------------------------------------------------------------
(* Claims about distribute_within_bounds (checked under SpecAlloc) *)

OnGrid(f) == \A n \in DOMAIN f : f[n] % Cent = 0

\* the values after lines 128-130, before the nudge of lines 132-144
BeforeNudge ==
    ClampRound(WaterFill(0, InitialVals(target, others, weights),
                         [n \in SeqRange(others) |-> FALSE],
                         target, others, mins, maxs, weights), mins, maxs)

\* C1: whenever the call returns, every value lies within its bounds to
\* within 0.01, and exactly within them when the bounds are multiples of
\* 0.01 (the nudge included).
C1_BoundsRespected ==
    apc = "returned" =>
        \A n \in SeqRange(others) :
            LET tol == IF OnGrid(mins) /\ OnGrid(maxs) THEN 0 ELSE Cent
            IN  /\ mins[n] - tol <= allocated.vals[n]
                /\ allocated.vals[n] <= maxs[n] + tol

\* a returned assignment in which the nudge moved a value
C1_Witness ==
    /\ apc = "returned"
    /\ allocated.vals # BeforeNudge
    /\ \E n \in SeqRange(others) : allocated.vals[n] = maxs[n]

\* C2: a call that gets past the feasibility gate returns exactly when the
\* final values sum to the target within 0.01; otherwise it raises.
C2_SumExact ==
    (apc \in {"returned", "raised"} /\ Feasible(target, others, mins, maxs)) =>
        (allocated.ok <=> Abs(SumOver(allocated.vals, others) - target) <= Cent)

\* a returned assignment whose sum is off the target, within the tolerance
C2_Witness ==
    /\ apc = "returned"
    /\ SumOver(allocated.vals, others) # target

\* C3: with the bounds of RANGES, a target at least 0.01 inside
\* [sum(mins), sum(maxs)] never makes the call raise.
C3_NeverFailsInside ==
    (/\ apc \in {"returned", "raised"}
     /\ mins = BoundsTable(0).mins /\ maxs = BoundsTable(0).maxs
     /\ weights \in JitteredWeights
     /\ SumOver(mins, others) + Cent <= target
     /\ target <= SumOver(maxs, others) - Cent)
        => allocated.ok

----------------------------------------------------------------------------
(* One call of a solver, step by step, on a drawn moisture *)

GridSpan == 11
MaxAttempts == 2

\* the moistures at which the deterministic solver changes branch or outcome:
\* 100 - moisture = sum of the maxs, gum max + mids, gum min + mids, sum of the mins
Thresholds ==
    {Hundred - (SumOver(OtherMaxs, others) + RANGES["gum"][2]),
     Hundred - (SumOver(MIDS, others) + RANGES["gum"][2]),
     Hundred - (SumOver(MIDS, others) + RANGES["gum"][1]),
     Hundred - (SumOver(OtherMins, others) + RANGES["gum"][1])}

\* every 5.00 from 0 to 100, and steps of 0.005 around each threshold
SolverMoistures ==
    {k * 500 * Cent : k \in 0..20}
        \cup {t + k * (Cent \div 2) : t \in Thresholds, k \in (-GridSpan)..GridSpan}

\* random.uniform(lo, hi) rounded to 4 decimals (line 213): the ends, and the
\* values just short of a rounding step around the midpoint
SampleChoices(o) ==
    {RANGES[o][1], MIDS[o] - 49 * Tick, MIDS[o] + 49 * Tick, RANGES[o][2]}

Samples ==
    {[fat |-> f, air |-> a, ash |-> h, protein |-> p] :
        f \in SampleChoices("fat"), a \in SampleChoices("air"),
        h \in SampleChoices("ash"), p \in SampleChoices("protein")}

\* random.uniform(gum_min, gum_max) rounded to 4 decimals (line 226)
GumTries ==
    {RANGES["gum"][1], RANGES["gum"][1] + Cent \div 2, MIDS["gum"],
     RANGES["gum"][2] - Cent \div 2, RANGES["gum"][2]}

InitSolve ==
    /\ moisture \in SolverMoistures
    /\ strategy \in {"deterministic", "random"}
    /\ spc = "start"
    /\ gum_try_list = <<>>
    /\ tried = <<>>
    /\ attempt = 0
    /\ drawn = NoVals
    /\ result = NoVals
    /\ AllocIdle /\ UiIdle

\* lines 172-181
DetMidpoints ==
    /\ strategy = "deterministic" /\ spc = "start"
    /\ GumInBounds(DetGumNeeded(moisture))
    /\ result' = DeterministicDirect(moisture)
    /\ spc' = "returned"
    /\ UNCHANGED <<moisture, strategy, gum_try_list, tried, attempt, drawn>>
    /\ UNCHANGED allocVars /\ UNCHANGED uiVars

\* line 183
DetEndpoints ==
    /\ strategy = "deterministic" /\ spc = "start"
    /\ ~GumInBounds(DetGumNeeded(moisture))
    /\ gum_try_list' = GumTryList
    /\ spc' = "try"
    /\ UNCHANGED <<moisture, strategy, tried, attempt, drawn, result>>
    /\ UNCHANGED allocVars /\ UNCHANGED uiVars

\* lines 184-204: the next endpoint
DetTry ==
    /\ strategy = "deterministic" /\ spc = "try"
    /\ gum_try_list # <<>>
    /\ LET gum_try == Head(gum_try_list)
           got == DeterministicTry(moisture, gum_try)
       IN  /\ tried' = Append(tried, gum_try)
           /\ gum_try_list' = Tail(gum_try_list)
           /\ IF got.ok
              THEN result' = got.result /\ spc' = "returned"
              ELSE result' = result /\ spc' = "try"
    /\ UNCHANGED <<moisture, strategy, attempt, drawn>>
    /\ UNCHANGED allocVars /\ UNCHANGED uiVars

\* line 205
DetRaise ==
    /\ strategy = "deterministic" /\ spc = "try"
    /\ gum_try_list = <<>>
    /\ spc' = "raised"
    /\ UNCHANGED <<moisture, strategy, gum_try_list, tried, attempt, drawn, result>>
    /\ UNCHANGED allocVars /\ UNCHANGED uiVars

\* lines 212-224: an attempt whose sample leaves gum in bounds
\* (drawn keeps the draws of the attempt that returned)
RandDirect ==
    /\ strategy = "random" /\ spc = "start"
    /\ attempt < MaxAttempts
    /\ \E sampled \in Samples :
        /\ GumInBounds(RandGumNeeded(moisture, sampled))
        /\ result' = RandomDirect(moisture, sampled)
        /\ drawn' = [sampled |-> sampled]
    /\ spc' = "returned"
    /\ UNCHANGED <<moisture, strategy, gum_try_list, tried, attempt>>
    /\ UNCHANGED allocVars /\ UNCHANGED uiVars

\* lines 212-215, 226-246: an attempt whose sample leaves gum out of bounds
\* (the sample is not used after line 215)
RandAllocate ==
    /\ strategy = "random" /\ spc = "start"
    /\ attempt < MaxAttempts
    /\ ~(\A sampled \in Samples : GumInBounds(RandGumNeeded(moisture, sampled)))
    /\ \E gum_try \in GumTries, rand_weights \in JitteredWeights :
        LET got == RandomAllocate(moisture, gum_try, rand_weights)
        IN  IF got.ok
            THEN /\ result' = got.result /\ spc' = "returned" /\ attempt' = attempt
                 /\ drawn' = [gum_try |-> gum_try, rand_weights |-> rand_weights]
            ELSE /\ result' = result /\ spc' = "start" /\ attempt' = attempt + 1
                 /\ drawn' = drawn
    /\ UNCHANGED <<moisture, strategy, gum_try_list, tried>>
    /\ UNCHANGED allocVars /\ UNCHANGED uiVars

\* line 248
RandRaise ==
    /\ strategy = "random" /\ spc = "start"
    /\ attempt >= MaxAttempts
    /\ spc' = "raised"
    /\ UNCHANGED <<moisture, strategy, gum_try_list, tried, attempt, drawn, result>>
    /\ UNCHANGED allocVars /\ UNCHANGED uiVars

NextSolve ==
    \/ DetMidpoints \/ DetEndpoints \/ DetTry \/ DetRaise
    \/ RandDirect \/ RandAllocate \/ RandRaise

SpecSolve == InitSolve /\ [][NextSolve]_vars

----------------------------------------------------------------------------
(* Claims about the solvers (checked under SpecSolve) *)

InBounds(k, x) == RANGES[k][1] <= x /\ x <= RANGES[k][2]

SixWaySum(m, r) == m + r.fat + r.air + r.ash + r.protein + r.gum

\* a split of 100 - m over the five components within their bounds exists
FeasibleSplit(m) ==
    LET all == others \o <<"gum">>
        lo == SumOver([k \in DOMAIN RANGES |-> RANGES[k][1]], all)
        hi == SumOver([k \in DOMAIN RANGES |-> RANGES[k][2]], all)
    IN  lo <= Hundred - m /\ Hundred - m <= hi

\* C4: every tuple a solver returns sums with the moisture to 100 within 0.01.
C4_SixWayTotal ==
    spc = "returned" => Abs(SixWaySum(moisture, result) - Hundred) <= Cent

\* C5: every tuple the randomized solver returns has all five components
\* within their bounds (stated here for the moistures that are multiples of
\* 0.01, the step of the form's input).
C5_RandomInBounds ==
    (strategy = "random" /\ spc = "returned" /\ moisture % Cent = 0) =>
        \A k \in DOMAIN RANGES : InBounds(k, result[k])

\* C6: for a moisture that is a multiple of 0.01, the deterministic solver
\* raises exactly when no feasible split exists; at moisture 0 it raises
\* after the allocator rejected both gum endpoints as not achievable.
C6_FailsIffInfeasible ==
    (strategy = "deterministic" /\ spc \in {"returned", "raised"} /\ moisture % Cent = 0) =>
        /\ spc = "raised" <=> ~FeasibleSplit(moisture)
        /\ moisture = 0 =>
            /\ spc = "raised"
            /\ tried = <<RANGES["gum"][1], RANGES["gum"][2]>>
            /\ \A i \in 1..Len(tried) :
                ~Feasible(Round4(Remaining(moisture) - tried[i]), others, OtherMins, OtherMaxs)

\* the deterministic solver raised at moisture 0 after both endpoints
C6_Witness ==
    /\ strategy = "deterministic" /\ spc = "raised"
    /\ moisture = 0 /\ Len(tried) = 2

\* the deterministic solver returned at a feasible moisture on the last
\* feasible grid point, through the endpoint branch
C6_WitnessReturned ==
    /\ strategy = "deterministic" /\ spc = "returned"
    /\ Hundred - moisture = SumOver(OtherMins, others) + RANGES["gum"][1]

\* C10 as stated: the endpoint nearer to gum_needed is tried first.
C10_NearerFirst ==
    (strategy = "deterministic" /\ tried # <<>>) =>
        /\ DetGumNeeded(moisture) > RANGES["gum"][2] => tried[1] = RANGES["gum"][2]
        /\ DetGumNeeded(moisture) < RANGES["gum"][1] => tried[1] = RANGES["gum"][1]

\* C10 amended: the endpoints are tried in the fixed order gum min, gum max,
\* whichever is nearer; the solver returns the tuple of the first endpoint
\* the allocator succeeds for, and raises after both failed.
C10_MinFirst ==
    (strategy = "deterministic" /\ ~GumInBounds(DetGumNeeded(moisture))
        /\ spc \in {"returned", "raised"}) =>
        /\ tried \in {<<RANGES["gum"][1]>>, <<RANGES["gum"][1], RANGES["gum"][2]>>}
        /\ \A i \in 1..(Len(tried) - 1) : ~DeterministicTry(moisture, tried[i]).ok
        /\ spc = "returned" =>
            /\ DeterministicTry(moisture, tried[Len(tried)]).ok
            /\ result = DeterministicTry(moisture, tried[Len(tried)]).result
        /\ spc = "raised" =>
            /\ Len(tried) = 2
            /\ ~DeterministicTry(moisture, tried[2]).ok

\* gum_needed above gum max: gum min was tried and failed, gum max succeeded
C10_Witness ==
    /\ strategy = "deterministic" /\ spc = "returned"
    /\ DetGumNeeded(moisture) > RANGES["gum"][2]
    /\ tried = <<RANGES["gum"][1], RANGES["gum"][2]>>
    /\ result.gum = RANGES["gum"][2]

----------------------------------------------------------------------------
(* The solvers as whole calls, for the script *)

\* lines 184-205: the endpoints of list from the k-th on
RECURSIVE TryEndpoints(_, _, _)
TryEndpoints(m, list, k) ==
    IF k > Len(list) THEN [ok |-> FALSE, result |-> NoVals]
    ELSE IF DeterministicTry(m, list[k]).ok THEN DeterministicTry(m, list[k])
    ELSE TryEndpoints(m, list, k + 1)

\* lines 166-205: [ok |-> TRUE, result |-> the tuple], or ok = FALSE for the raise
calculate_components_deterministic(m) ==
    IF GumInBounds(DetGumNeeded(m))
    THEN [ok |-> TRUE, result |-> DeterministicDirect(m)]
    ELSE TryEndpoints(m, GumTryList, 1)

\* lines 207-248: the outcomes the random draws allow.  Each attempt draws
\* afresh, so the call can return whatever one attempt can return, and can
\* raise (line 248) when one attempt can fail.
calculate_components_random(m) ==
    LET direct == {s \in Samples : GumInBounds(RandGumNeeded(m, s))}
        outside == direct # Samples
        allocs == IF outside
                  THEN {RandomAllocate(m, g, w) : g \in GumTries, w \in JitteredWeights}
                  ELSE {}
    IN  {[ok |-> TRUE, result |-> RandomDirect(m, s)] : s \in direct}
            \cup {a \in allocs : a.ok}
            \cup (IF \E a \in allocs : ~a.ok THEN {[ok |-> FALSE, result |-> NoVals]} ELSE {})

----------------------------------------------------------------------------
(* The script: one run per interaction, over the session state *)

\* line 299: value=10.00, min_value=0.0, max_value=99.0
DefaultMoisture == 1000 * Cent

\* the moistures entered: the default, an infeasible one, and two at the dry
\* edge of the feasible range, one of them no multiple of 0.01
WidgetMoistures ==
    {DefaultMoisture, 0, 1365 * Cent, 13645 * (Cent \div 10)}

\* the solvers' outcomes at the moistures entered
RandomOutcomes == [m \in WidgetMoistures |-> calculate_components_random(m)]
DeterministicOutcome == [m \in WidgetMoistures |-> calculate_components_deterministic(m)]

\* lines 319-326, 342-349: float(f"{x:.2f}") of each component
Components(m, r) ==
    [Moisture |-> Round2(m), Fat |-> Round2(r.fat), Air |-> Round2(r.air),
     Ash |-> Round2(r.ash), Protein |-> Round2(r.protein), Gum |-> Round2(r.gum)]

\* lines 257-260 and the first run, up to line 311
Init ==
    /\ components = NoVals
    /\ components_moisture = -1
    /\ moisture = DefaultMoisture
    /\ refresh = FALSE /\ generate = FALSE
    /\ upc = "ensure"
    /\ surfaced = "none"
    /\ data = NoVals
    /\ strategy = "none" /\ spc = "idle" /\ gum_try_list = <<>>
    /\ tried = <<>> /\ attempt = 0 /\ drawn = NoVals /\ result = NoVals
    /\ AllocIdle

scriptFrame == <<strategy, spc, gum_try_list, tried, attempt, drawn, result>>

\* an interaction reruns the script from the top (lines 253-311): the
\* moisture widget holds its new value, at most one button reports a click
Rerun ==
    /\ upc = "idle"
    /\ \E m \in WidgetMoistures, click \in {"none", "refresh", "generate"} :
        /\ (m # moisture \/ click # "none")
        /\ moisture' = m
        /\ refresh' = (click = "refresh")
        /\ generate' = (click = "generate")
    /\ upc' = "ensure"
    /\ surfaced' = "none"
    /\ data' = NoVals
    /\ UNCHANGED <<components, components_moisture>>
    /\ UNCHANGED scriptFrame /\ UNCHANGED allocVars

\* the key written before the solvers are called
EnsureComponents_KeyFirst ==
    /\ upc = "ensure"
    /\ IF components = NoVals \/ components_moisture # Round2(moisture)
       THEN \E out \in RandomOutcomes[moisture] :
                LET got == IF out.ok THEN out ELSE DeterministicOutcome[moisture]
                IN  IF got.ok
                    THEN /\ components' = Components(moisture, got.result)
                         /\ components_moisture' = Round2(moisture)
                         /\ upc' = "refresh" /\ surfaced' = surfaced
                    ELSE /\ components' = components
                         /\ components_moisture' = Round2(moisture)
                         /\ upc' = "idle" /\ surfaced' = "exception"
       ELSE /\ upc' = "refresh"
            /\ UNCHANGED <<components, components_moisture, surfaced>>
    /\ UNCHANGED <<moisture, refresh, generate, data>>
    /\ UNCHANGED scriptFrame /\ UNCHANGED allocVars

\* the cache recomputed only when it is empty
EnsureComponents_NoStaleCheck ==
    /\ upc = "ensure"
    /\ IF components = NoVals
       THEN \E out \in RandomOutcomes[moisture] :
                LET got == IF out.ok THEN out ELSE DeterministicOutcome[moisture]
                IN  IF got.ok
                    THEN /\ components' = Components(moisture, got.result)
                         /\ components_moisture' = Round2(moisture)
                         /\ upc' = "refresh" /\ surfaced' = surfaced
                    ELSE /\ UNCHANGED <<components, components_moisture>>
                         /\ upc' = "idle" /\ surfaced' = "exception"
       ELSE /\ upc' = "refresh"
            /\ UNCHANGED <<components, components_moisture, surfaced>>
    /\ UNCHANGED <<moisture, refresh, generate, data>>
    /\ UNCHANGED scriptFrame /\ UNCHANGED allocVars

\* lines 312-329: ensure_components_for_current_moisture.  The random solver
\* first, the deterministic one when it raises; when that raises too the
\* exception leaves the function and ends the run.
EnsureComponents ==
    /\ upc = "ensure"
    /\ IF components = NoVals \/ components_moisture # Round2(moisture)
       THEN \E out \in RandomOutcomes[moisture] :
                LET got == IF out.ok THEN out ELSE DeterministicOutcome[moisture]
                IN  IF got.ok
                    THEN /\ components' = Components(moisture, got.result)
                         /\ components_moisture' = Round2(moisture)
                         /\ upc' = "refresh" /\ surfaced' = surfaced
                    ELSE /\ UNCHANGED <<components, components_moisture>>
                         /\ upc' = "idle" /\ surfaced' = "exception"
       ELSE /\ upc' = "refresh"
            /\ UNCHANGED <<components, components_moisture, surfaced>>
    /\ UNCHANGED <<moisture, refresh, generate, data>>
    /\ UNCHANGED scriptFrame /\ UNCHANGED allocVars

\* lines 339-353: the refresh handler
RefreshHandler ==
    /\ upc = "refresh"
    /\ IF refresh
       THEN \E out \in RandomOutcomes[moisture] :
                IF out.ok
                THEN /\ components' = Components(moisture, out.result)
                     /\ components_moisture' = Round2(moisture)
                     /\ surfaced' = surfaced
                ELSE /\ UNCHANGED <<components, components_moisture>>
                     /\ surfaced' = "random_failed"
       ELSE UNCHANGED <<components, components_moisture, surfaced>>
    /\ upc' = "generate"
    /\ UNCHANGED <<moisture, refresh, generate, data>>
    /\ UNCHANGED scriptFrame /\ UNCHANGED allocVars

\* lines 377, 385-394: the placeholder values, each f"{x:.2f}%"
Placeholders(comp) ==
    [MOISTURE |-> Round2(comp.Moisture), GUM_CONTENT |-> Round2(comp.Gum),
     PROTEIN |-> Round2(comp.Protein), ASH_CONTENT |-> Round2(comp.Ash),
     AIR |-> Round2(comp.Air), FAT |-> Round2(comp.Fat)]

\* lines 372-395: the generate handler, up to the placeholder mapping
GenerateHandler ==
    /\ upc = "generate"
    /\ IF ~generate
       THEN UNCHANGED <<surfaced, data>>
       ELSE IF components = NoVals
       THEN surfaced' = "no_components" /\ data' = data
       ELSE LET comp == components
                total == Round2(comp.Moisture + comp.Fat + comp.Air + comp.Ash
                                + comp.Protein + comp.Gum)
            IN  IF Abs(total - Hundred) > Cent
                THEN surfaced' = "total_mismatch" /\ data' = data
                ELSE surfaced' = surfaced /\ data' = Placeholders(comp)
    /\ upc' = "idle"
    /\ UNCHANGED <<components, components_moisture, moisture, refresh, generate>>
    /\ UNCHANGED scriptFrame /\ UNCHANGED allocVars

Next == Rerun \/ EnsureComponents \/ RefreshHandler \/ GenerateHandler

Spec == Init /\ [][Next]_vars

----------------------------------------------------------------------------
(* Claims about the script (checked under Spec) *)

\* C7: a failure of the randomized solver reaches the user only when the
\* deterministic solver fails for that moisture too, on every path that
\* calls the randomized solver.
C7_FallbackEverywhere ==
    surfaced \in {"random_failed", "exception"} =>
        ~calculate_components_deterministic(moisture).ok

\* C8: a run of ensure_components_for_current_moisture or of the refresh
\* handler whose solver call raises leaves both cache keys as they were,
\* and the two keys always go together: both unset, or components holding
\* the moisture that components_moisture names.
C8_CacheKeptOnFailure ==
    [][/\ (surfaced' \in {"random_failed", "exception"} /\ surfaced = "none") =>
            (components' = components /\ components_moisture' = components_moisture)
       /\ (components' = NoVals) <=> (components_moisture' = -1)
       /\ components' # NoVals => components'.Moisture = components_moisture']_vars

\* the run for an infeasible moisture ended in the exception, over a cache
\* filled for an earlier moisture
C8_Witness ==
    /\ surfaced = "exception"
    /\ components # NoVals
    /\ components_moisture # Round2(moisture)

\* the refresh handler reported the failure of the randomized solver
C8_WitnessRefresh ==
    /\ surfaced = "random_failed"
    /\ components # NoVals

\* C9: whenever the generate handler has built the placeholder mapping, the
\* cache was computed for the current moisture.
C9_CacheIsCurrent ==
    data # NoVals =>
        /\ components_moisture = Round2(moisture)
        /\ components.Moisture = Round2(moisture)
        /\ data.MOISTURE = Round2(moisture)

\* a mapping built after the moisture was edited away from the default
C9_Witness ==
    /\ data # NoVals
    /\ moisture # DefaultMoisture
====
